---- MODULE Spec2Model ----
(***************************************************************************)
(* Model of the KoteksWords glossary component (src/src/App.tsx): the      *)
(* search/category filter over the static word list and the quiz state     *)
(* machine.                                                                *)
(*                                                                         *)
(* Strings are sequences of characters.  The characters are one-letter     *)
(* strings; "s^" and "S^" stand for the letters s and S with a caron       *)
(* (U+0161, U+0160), the diacritic letters of the Croatian words.          *)
(***************************************************************************)
EXTENDS Integers, Sequences, FiniteSets, TLC

VARIABLES words, query, activeCategory, translation, filteredWords,
          quizLanguage, quizState, quizQuestions, quizIndex,
          selectedChoice, quizScore, quizError,
          answersAccepted, correctAnswers, nextCalls

vars == <<words, query, activeCategory, translation, filteredWords,
          quizLanguage, quizState, quizQuestions, quizIndex,
          selectedChoice, quizScore, quizError,
          answersAccepted, correctAnswers, nextCalls>>

searchVars == <<query, activeCategory, translation, filteredWords>>

quizVars == <<quizLanguage, quizState, quizQuestions, quizIndex,
              selectedChoice, quizScore, quizError>>

\* the history of the current quiz run, kept for the properties only: the
\* answers handleAnswer accepted, those of them that chose the correct option,
\* and the clicks on Next/End
historyVars == <<answersAccepted, correctAnswers, nextCalls>>

(***************************************************************************)
(* Bounds of the model.                                                    *)
(***************************************************************************)
\* longest query typed into the search box
MaxQueryLen == 2
\* largest word list loaded from words.json
MaxWords == 11
\* number of distinct streams of Math.random() results
MaxSeed == 2

(***************************************************************************)
(* Values of the language.                                                 *)
(***************************************************************************)
\* an absent optional field (word.hi of an entry without "hi")
undefined == <<"\\undefined">>

\* null of selectedChoice (useState<number | null>); the choices are 0, 1, 2, 3
null == -1

\* null of quizError (useState<string | null>)
nullError == "null"

\* the empty string ''
EmptyString == <<>>

\* Boolean(value) of a string or undefined, as used by filter(Boolean)
Truthy(text) == text # undefined /\ text # EmptyString

\* String.prototype.toLowerCase on one character
LowerChar(c) ==
    CASE c = "A" -> "a"
      [] c = "S" -> "s"
      [] c = "S^" -> "s^"
      [] OTHER -> c

toLowerCase(text) == [i \in 1..Len(text) |-> LowerChar(text[i])]

IsSpace(c) == c = " "

RECURSIVE trimStart(_)
trimStart(text) ==
    IF text # <<>> /\ IsSpace(Head(text)) THEN trimStart(Tail(text)) ELSE text

RECURSIVE trimEnd(_)
trimEnd(text) ==
    IF text # <<>> /\ IsSpace(text[Len(text)])
    THEN trimEnd(SubSeq(text, 1, Len(text) - 1))
    ELSE text

\* String.prototype.trim
trim(text) == trimEnd(trimStart(text))

\* String.prototype.includes
includes(text, part) ==
    \E i \in 0..(Len(text) - Len(part)) : SubSeq(text, i + 1, i + Len(part)) = part

\* Array.prototype.join
RECURSIVE join(_, _)
join(texts, sep) ==
    IF texts = <<>> THEN <<>>
    ELSE IF Len(texts) = 1 THEN texts[1]
    ELSE texts[1] \o sep \o join(Tail(texts), sep)

Range(values) == {values[i] : i \in 1..Len(values)}

(***************************************************************************)
(* normalizeText: NFD, strip combining marks, collapse non-alphanumerics   *)
(* to one space, trim, lower case.                                         *)
(***************************************************************************)
\* normalize('NFD') followed by the removal of U+0300..U+036F
StripMarks(c) ==
    CASE c = "s^" -> "s"
      [] c = "S^" -> "S"
      [] OTHER -> c

IsAlnum(c) == c \in {"a", "A", "s", "S"}

RECURSIVE collapseNonAlnum(_)
collapseNonAlnum(text) ==
    IF text = <<>> THEN <<>>
    ELSE IF IsAlnum(Head(text)) THEN <<Head(text)>> \o collapseNonAlnum(Tail(text))
    ELSE IF Len(text) > 1 /\ ~IsAlnum(text[2]) THEN collapseNonAlnum(Tail(text))
    ELSE <<" ">> \o collapseNonAlnum(Tail(text))

normalizeText(text) ==
    toLowerCase(trim(collapseNonAlnum([i \in 1..Len(text) |-> StripMarks(text[i])])))

(***************************************************************************)
(* The word list (words.json).  The file is data outside the component;    *)
(* the model loads one of several lists of WordEntry records.              *)
(***************************************************************************)
Letters == <<"a", "s", "s^", "A">>

Letter(k) == Letters[(k % 4) + 1]

\* the i-th entry of a word list
WordEntry(i) ==
    [id |-> i,
     hr |-> CASE i % 4 = 1 -> <<"s^", "a">>
              [] i % 4 = 2 -> <<"S", "a">>
              [] i % 4 = 3 -> <<"a", " ", "S^">>
              [] OTHER -> <<"A">>,
     en |-> <<Letter((i - 1) \div 4), Letter(i - 1)>>,
     es |-> IF i % 2 = 1 THEN undefined ELSE <<"s", Letter(i \div 2)>>,
     hi |-> IF i = 2 THEN <<" ">> ELSE <<" ", Letter(i), Letter(i \div 4)>>,
     ta |-> CASE i % 4 = 1 -> <<"a">>
              [] i % 4 = 2 -> <<" ", "a">>
              [] i % 4 = 3 -> <<"s">>
              [] OTHER -> <<"s^", " ">>,
     te |-> <<Letter(i)>>,
     bn |-> IF i % 2 = 1 THEN undefined ELSE EmptyString,
     category |-> IF i % 3 = 0 THEN "tools" ELSE "safety"]

WordList(n) == [i \in 1..n |-> WordEntry(i)]

\* the sizes of the word lists the model loads
WordCounts == {9, MaxWords}

\* categories: 'All' followed by the categories of the words
categories == {"All"} \cup {words[i].category : i \in 1..Len(words)}

\* translationOptions
TranslationKeys == {"en", "es", "hi", "ta", "te", "bn"}

\* word[key]
Field(word, key) ==
    CASE key = "en" -> word.en
      [] key = "es" -> word.es
      [] key = "hi" -> word.hi
      [] key = "ta" -> word.ta
      [] key = "te" -> word.te
      [] key = "bn" -> word.bn
      [] key = "hr" -> word.hr

(***************************************************************************)
(* filteredWords                                                           *)
(***************************************************************************)
\* primary collation weight of a character in the hr locale
\* (sensitivity 'base': case is ignored, s-caron is a letter after s)
Weight(c) ==
    CASE c = " " -> 0
      [] c \in {"a", "A"} -> 1
      [] c \in {"s", "S"} -> 2
      [] c \in {"s^", "S^"} -> 3

\* a.localeCompare(b, 'hr', { sensitivity: 'base' }) < 0, = 0, > 0 as -1, 0, 1
RECURSIVE localeCompare(_, _)
localeCompare(a, b) ==
    IF a = <<>> /\ b = <<>> THEN 0
    ELSE IF a = <<>> THEN -1
    ELSE IF b = <<>> THEN 1
    ELSE IF Weight(Head(a)) < Weight(Head(b)) THEN -1
    ELSE IF Weight(Head(a)) > Weight(Head(b)) THEN 1
    ELSE localeCompare(Tail(a), Tail(b))

\* insertion of one entry behind every entry that does not compare greater
RECURSIVE insertSorted(_, _)
insertSorted(sorted, word) ==
    IF sorted = <<>> THEN <<word>>
    ELSE IF localeCompare(Head(sorted).hr, word.hr) > 0 THEN <<word>> \o sorted
    ELSE <<Head(sorted)>> \o insertSorted(Tail(sorted), word)

\* Array.prototype.sort with the hr comparator (a stable sort)
RECURSIVE sortByHr(_, _)
sortByHr(sorted, rest) ==
    IF rest = <<>> THEN sorted
    ELSE sortByHr(insertSorted(sorted, Head(rest)), Tail(rest))

matchesCategory_ignored(word, category) == TRUE

matchesCategory(word, category) ==
    category = "All" \/ word.category = category

searchable_hrEnHi(word) ==
    toLowerCase(join(SelectSeq(<<word.hr, word.en, word.hi>>, Truthy), <<" ">>))

searchable(word) ==
    toLowerCase(join(SelectSeq(<<word.hr, word.en, word.es, word.hi, word.ta, word.te, word.bn>>,
                            Truthy), <<" ">>))

\* the predicate of words.filter in filteredWords
matchesFilter(word, category, text) ==
    LET normalizedQuery == toLowerCase(trim(text))
    IN  IF normalizedQuery = EmptyString
        THEN matchesCategory(word, category)
        ELSE matchesCategory(word, category) /\ includes(searchable(word), normalizedQuery)

computeFilteredWords_sortInPlace(list, category, text) ==
    LET Keep(word) == matchesFilter(word, category, text)
        sorted == sortByHr(<<>>, list)
    IN  [result |-> SelectSeq(sorted, Keep), words |-> sorted]

\* the useMemo body of filteredWords: its result and the word list afterwards
computeFilteredWords(list, category, text) ==
    LET Keep(word) == matchesFilter(word, category, text)
        filtered == SelectSeq(list, Keep)
    IN  [result |-> sortByHr(<<>>, filtered), words |-> list]

(***************************************************************************)
(* Quiz generation                                                         *)
(***************************************************************************)
\* the number of questions of a quiz (wordsWithTranslations.length < 10,
\* slice(0, 10), questions.length < 10)
QuizLength == 10

\* the number of distinct translations a quiz needs (uniqueTranslations.length < 4)
MinTranslations == 4

\* the number of distractors of a question (distractorPool.slice(0, 3))
Distractors == 3

getTranslationForQuiz(word, key) ==
    IF Field(word, key) # undefined THEN trim(trim(Field(word, key)))
    ELSE IF word.en # undefined THEN trim(trim(word.en))
    ELSE EmptyString

\* Math.floor(Math.random() * n): the t-th result of the stream `seed`, in 0..n-1
randomIndex(seed, t, n) == ((7 * seed + 3) * (t + 1) + (t \div 3) + seed) % n

swap_overwrite(clone, i, j) == [clone EXCEPT ![i] = clone[j]]

\* [clone[i], clone[j]] = [clone[j], clone[i]]
swap(clone, i, j) == [clone EXCEPT ![i] = clone[j], ![j] = clone[i]]

\* the loop of shuffleArray from position i (1-based) down, at draw t
RECURSIVE shuffleFrom(_, _, _, _)
shuffleFrom(clone, i, seed, t) ==
    IF i <= 1 THEN clone
    ELSE shuffleFrom(swap(clone, i, randomIndex(seed, t, i) + 1), i - 1, seed, t + 1)

\* shuffleArray: a Fisher-Yates shuffle of a copy of values
shuffleArray(values, seed, t) == shuffleFrom(values, Len(values), seed, t)

\* the number of Math.random() calls of shuffleArray on n values
Draws(n) == IF n > 1 THEN n - 1 ELSE 0

\* Array.from(new Set(values)): the distinct values in order of first occurrence
RECURSIVE unique(_, _)
unique(seen, values) ==
    IF values = <<>> THEN seen
    ELSE IF Head(values) \in Range(seen) THEN unique(seen, Tail(values))
    ELSE unique(Append(seen, Head(values)), Tail(values))

\* Array.prototype.slice(0, n)
slice(values, n) == SubSeq(values, 1, IF Len(values) < n THEN Len(values) ELSE n)

\* Array.prototype.indexOf (0-based, -1 when absent)
indexOf(values, value) ==
    IF \E i \in 1..Len(values) : values[i] = value
    THEN (CHOOSE i \in 1..Len(values) :
              values[i] = value /\ \A k \in 1..(i - 1) : values[k] # value) - 1
    ELSE -1

wordsWithTranslations(list, language) ==
    LET HasTranslation(word) == Truthy(getTranslationForQuiz(word, language))
    IN  SelectSeq(list, HasTranslation)

uniqueTranslations(list, language) ==
    LET found == wordsWithTranslations(list, language)
    IN  unique(<<>>, SelectSeq([i \in 1..Len(found) |->
                                    getTranslationForQuiz(found[i], language)], Truthy))

notEnough_and(found, translations) ==
    Len(found) < QuizLength /\ Len(translations) < MinTranslations

\* the refusal test of buildQuizQuestions
notEnough(found, translations) ==
    Len(found) < QuizLength \/ Len(translations) < MinTranslations

distractorCandidates_all(translations, correctAnswer) == translations

\* uniqueTranslations.filter((text) => text !== correctAnswer)
distractorCandidates(translations, correctAnswer) ==
    LET Other(text) == text # correctAnswer
    IN  SelectSeq(translations, Other)

\* one element of selectedWords.map: the question of `word`, from draw t on
buildQuestion(word, language, translations, seed, t) ==
    LET correctAnswer == getTranslationForQuiz(word, language)
        candidates == distractorCandidates(translations, correctAnswer)
        distractorPool == shuffleArray(candidates, seed, t)
        options == shuffleArray(<<correctAnswer>> \o slice(distractorPool, Distractors),
                                seed, t + Draws(Len(candidates)))
    IN  [word |-> word, options |-> options, correctIndex |-> indexOf(options, correctAnswer)]

\* buildQuizQuestions with the Math.random() stream `seed`:
\* the questions, and the word list afterwards
buildQuizQuestions(list, language, seed) ==
    LET found == wordsWithTranslations(list, language)
        translations == uniqueTranslations(list, language)
        selectedWords == slice(shuffleArray(found, seed, 0), QuizLength)
        perQuestion == Draws(Len(translations) - 1) + Draws(Distractors + 1)
    IN  [questions |->
             IF notEnough(found, translations) THEN <<>>
             ELSE [k \in 1..Len(selectedWords) |->
                      buildQuestion(selectedWords[k], language, translations, seed,
                                    Draws(Len(found)) + (k - 1) * perQuestion)],
         words |-> list]

(***************************************************************************)
(* The component state and its handlers                                    *)
(***************************************************************************)
QuizErrorMessage == "Nije moguce napraviti kviz: nema dovoljno rijeci s odabranim prijevodom."

Init ==
    /\ words \in {WordList(n) : n \in WordCounts}
    /\ query = EmptyString
    /\ activeCategory = "All"
    /\ translation = "en"
    /\ filteredWords = computeFilteredWords(words, "All", EmptyString).result
    /\ quizLanguage = "en"
    /\ quizState = "idle"
    /\ quizQuestions = <<>>
    /\ quizIndex = 0
    /\ selectedChoice = null
    /\ quizScore = 0
    /\ quizError = nullError
    /\ answersAccepted = 0
    /\ correctAnswers = 0
    /\ nextCalls = 0

\* const currentQuestion = quizQuestions[quizIndex]
HasCurrentQuestion == quizIndex < Len(quizQuestions)

currentQuestion == quizQuestions[quizIndex + 1]

\* onChange of the search input, and the recomputation of filteredWords
setQuery(text) ==
    LET memo == computeFilteredWords(words, activeCategory, text)
    IN  /\ query' = text
        /\ filteredWords' = memo.result
        /\ words' = memo.words
        /\ UNCHANGED <<activeCategory, translation>>
        /\ UNCHANGED quizVars
        /\ UNCHANGED historyVars

\* onClick of a category pill, and the recomputation of filteredWords
setActiveCategory(category) ==
    LET memo == computeFilteredWords(words, category, query)
    IN  /\ activeCategory' = category
        /\ filteredWords' = memo.result
        /\ words' = memo.words
        /\ UNCHANGED <<query, translation>>
        /\ UNCHANGED quizVars
        /\ UNCHANGED historyVars

\* onChange of the translation language select
setTranslation(key) ==
    /\ translation' = key
    /\ UNCHANGED <<words, query, activeCategory, filteredWords>>
    /\ UNCHANGED quizVars
    /\ UNCHANGED historyVars

\* onChange of the quiz language select
setQuizLanguage(key) ==
    /\ quizLanguage' = key
    /\ UNCHANGED <<words, quizState, quizQuestions, quizIndex, selectedChoice,
                   quizScore, quizError>>
    /\ UNCHANGED searchVars
    /\ UNCHANGED historyVars

startQuizHandler_clearOnRefusal ==
    \E seed \in 1..MaxSeed :
        LET built == buildQuizQuestions(words, quizLanguage, seed)
        IN  /\ words' = built.words
            /\ IF Len(built.questions) < QuizLength
               THEN /\ quizError' = QuizErrorMessage
                    /\ quizState' = "idle"
                    /\ quizQuestions' = <<>>
                    /\ quizIndex' = 0
                    /\ UNCHANGED <<selectedChoice, quizScore>>
               ELSE /\ quizQuestions' = built.questions
                    /\ quizIndex' = 0
                    /\ selectedChoice' = null
                    /\ quizScore' = 0
                    /\ quizError' = nullError
                    /\ quizState' = "active"
            /\ UNCHANGED quizLanguage
            /\ UNCHANGED searchVars

startQuizHandler_keepChoice ==
    \E seed \in 1..MaxSeed :
        LET built == buildQuizQuestions(words, quizLanguage, seed)
        IN  /\ words' = built.words
            /\ IF Len(built.questions) < QuizLength
               THEN /\ quizError' = QuizErrorMessage
                    /\ quizState' = "idle"
                    /\ UNCHANGED <<quizQuestions, quizIndex, selectedChoice, quizScore>>
               ELSE /\ quizQuestions' = built.questions
                    /\ quizIndex' = 0
                    /\ UNCHANGED selectedChoice
                    /\ quizScore' = 0
                    /\ quizError' = nullError
                    /\ quizState' = "active"
            /\ UNCHANGED quizLanguage
            /\ UNCHANGED searchVars

startQuizHandler_keepScore ==
    \E seed \in 1..MaxSeed :
        LET built == buildQuizQuestions(words, quizLanguage, seed)
        IN  /\ words' = built.words
            /\ IF Len(built.questions) < QuizLength
               THEN /\ quizError' = QuizErrorMessage
                    /\ quizState' = "idle"
                    /\ UNCHANGED <<quizQuestions, quizIndex, selectedChoice, quizScore>>
               ELSE /\ quizQuestions' = built.questions
                    /\ quizIndex' = 0
                    /\ selectedChoice' = null
                    /\ UNCHANGED quizScore
                    /\ quizError' = nullError
                    /\ quizState' = "active"
            /\ UNCHANGED quizLanguage
            /\ UNCHANGED searchVars

\* startQuiz, for every stream of Math.random() results
startQuizHandler ==
    \E seed \in 1..MaxSeed :
        LET built == buildQuizQuestions(words, quizLanguage, seed)
        IN  /\ words' = built.words
            /\ IF Len(built.questions) < QuizLength
               THEN /\ quizError' = QuizErrorMessage
                    /\ quizState' = "idle"
                    /\ UNCHANGED <<quizQuestions, quizIndex, selectedChoice, quizScore>>
               ELSE /\ quizQuestions' = built.questions
                    /\ quizIndex' = 0
                    /\ selectedChoice' = null
                    /\ quizScore' = 0
                    /\ quizError' = nullError
                    /\ quizState' = "active"
            /\ UNCHANGED quizLanguage
            /\ UNCHANGED searchVars

handleAnswerHandler_alwaysScores(index) ==
    /\ IF ~HasCurrentQuestion \/ selectedChoice # null
       THEN UNCHANGED <<selectedChoice, quizScore>>
       ELSE /\ selectedChoice' = index
            /\ quizScore' = quizScore + 1
    /\ UNCHANGED <<words, quizLanguage, quizState, quizQuestions, quizIndex, quizError>>
    /\ UNCHANGED searchVars

\* handleAnswer(index)
handleAnswerHandler(index) ==
    /\ IF ~HasCurrentQuestion \/ selectedChoice # null
       THEN UNCHANGED <<selectedChoice, quizScore>>
       ELSE /\ selectedChoice' = index
            /\ quizScore' = IF index = currentQuestion.correctIndex
                            THEN quizScore + 1 ELSE quizScore
    /\ UNCHANGED <<words, quizLanguage, quizState, quizQuestions, quizIndex, quizError>>
    /\ UNCHANGED searchVars

goToNextHandler_completeEarly ==
    /\ IF ~HasCurrentQuestion
       THEN UNCHANGED <<quizState, quizIndex, selectedChoice>>
       ELSE IF quizIndex >= Len(quizQuestions) - 2
       THEN quizState' = "complete" /\ UNCHANGED <<quizIndex, selectedChoice>>
       ELSE /\ quizIndex' = quizIndex + 1
            /\ selectedChoice' = null
            /\ UNCHANGED quizState
    /\ UNCHANGED <<words, quizLanguage, quizQuestions, quizScore, quizError>>
    /\ UNCHANGED searchVars

goToNextHandler_skipOne ==
    /\ IF ~HasCurrentQuestion
       THEN UNCHANGED <<quizState, quizIndex, selectedChoice>>
       ELSE IF quizIndex = Len(quizQuestions) - 1
       THEN quizState' = "complete" /\ UNCHANGED <<quizIndex, selectedChoice>>
       ELSE /\ quizIndex' = IF quizIndex + 2 < Len(quizQuestions)
                            THEN quizIndex + 2 ELSE quizIndex + 1
            /\ selectedChoice' = null
            /\ UNCHANGED quizState
    /\ UNCHANGED <<words, quizLanguage, quizQuestions, quizScore, quizError>>
    /\ UNCHANGED searchVars

goToNextHandler_noLastCheck ==
    /\ IF ~HasCurrentQuestion
       THEN UNCHANGED <<quizState, quizIndex, selectedChoice>>
       ELSE IF quizIndex = Len(quizQuestions)
       THEN quizState' = "complete" /\ UNCHANGED <<quizIndex, selectedChoice>>
       ELSE /\ quizIndex' = quizIndex + 1
            /\ selectedChoice' = null
            /\ UNCHANGED quizState
    /\ UNCHANGED <<words, quizLanguage, quizQuestions, quizScore, quizError>>
    /\ UNCHANGED searchVars

goToNextHandler_keepChoice ==
    /\ IF ~HasCurrentQuestion
       THEN UNCHANGED <<quizState, quizIndex, selectedChoice>>
       ELSE IF quizIndex = Len(quizQuestions) - 1
       THEN quizState' = "complete" /\ UNCHANGED <<quizIndex, selectedChoice>>
       ELSE /\ quizIndex' = quizIndex + 1
            /\ UNCHANGED <<quizState, selectedChoice>>
    /\ UNCHANGED <<words, quizLanguage, quizQuestions, quizScore, quizError>>
    /\ UNCHANGED searchVars

\* goToNext
goToNextHandler ==
    /\ IF ~HasCurrentQuestion
       THEN UNCHANGED <<quizState, quizIndex, selectedChoice>>
       ELSE IF quizIndex = Len(quizQuestions) - 1
       THEN quizState' = "complete" /\ UNCHANGED <<quizIndex, selectedChoice>>
       ELSE /\ quizIndex' = quizIndex + 1
            /\ selectedChoice' = null
            /\ UNCHANGED quizState
    /\ UNCHANGED <<words, quizLanguage, quizQuestions, quizScore, quizError>>
    /\ UNCHANGED searchVars

\* resetQuiz
resetQuizHandler ==
    /\ quizState' = "idle"
    /\ quizQuestions' = <<>>
    /\ quizIndex' = 0
    /\ selectedChoice' = null
    /\ quizScore' = 0
    /\ quizError' = nullError
    /\ UNCHANGED <<words, quizLanguage>>
    /\ UNCHANGED searchVars

(***************************************************************************)
(* The rendered buttons: a handler runs when a button that is rendered     *)
(* (and not disabled) is clicked.                                          *)
(***************************************************************************)
\* quizState === 'active' && currentQuestion
QuestionRendered == quizState = "active" /\ HasCurrentQuestion

\* "Start quiz" is always rendered; "Ponovi kviz" is rendered in 'complete'
\* (a quiz that starts begins a new run)
startQuiz ==
    /\ startQuizHandler
    /\ IF quizState' = "active"
       THEN answersAccepted' = 0 /\ correctAnswers' = 0 /\ nextCalls' = 0
       ELSE UNCHANGED historyVars

\* an option button of the current question, enabled while unanswered
handleAnswer(index) ==
    /\ QuestionRendered
    /\ index \in 0..(Len(currentQuestion.options) - 1)
    /\ selectedChoice = null
    /\ handleAnswerHandler(index)
    /\ answersAccepted' = answersAccepted + 1
    /\ correctAnswers' = IF index = currentQuestion.correctIndex
                         THEN correctAnswers + 1 ELSE correctAnswers
    /\ UNCHANGED nextCalls

\* the Next/End button of the quiz footer
goToNext ==
    /\ QuestionRendered
    /\ selectedChoice # null
    /\ goToNextHandler
    /\ nextCalls' = nextCalls + 1
    /\ UNCHANGED <<answersAccepted, correctAnswers>>

\* "Reset" is rendered unless idle; "Zatvori" is rendered in 'complete'
resetQuiz ==
    /\ quizState # "idle"
    /\ resetQuizHandler
    /\ answersAccepted' = 0 /\ correctAnswers' = 0 /\ nextCalls' = 0

(***************************************************************************)
(* Specifications                                                          *)
(***************************************************************************)
\* the characters typed into the search box
QueryChars == {"a", "S", "s^", " "}

RECURSIVE TextsUpTo(_)
TextsUpTo(n) ==
    IF n = 0 THEN {<<>>}
    ELSE LET shorter == TextsUpTo(n - 1)
         IN  shorter \cup {Append(text, c) : text \in shorter, c \in QueryChars}

\* every query of at most MaxQueryLen characters
Queries == TextsUpTo(MaxQueryLen)

\* the search box alone: queries, categories and the translation language
NextSearch ==
    \/ \E text \in Queries : setQuery(text)
    \/ \E category \in categories : setActiveCategory(category)
    \/ \E key \in TranslationKeys : setTranslation(key)

SpecSearch == Init /\ [][NextSearch]_vars

\* quiz generation alone: the quiz language, Start and Reset
NextBuild ==
    \/ \E key \in TranslationKeys : setQuizLanguage(key)
    \/ startQuiz
    \/ resetQuiz

SpecBuild == Init /\ [][NextBuild]_vars

\* the queries, translation languages, quiz languages and answers used
\* where the quiz is played through
SomeQueries == {EmptyString, <<" ", "S">>}

SomeTranslations == {"en", "hi"}

SomeQuizLanguages == {"en", "ta"}

SomeChoices == {0, Distractors}

\* the quiz alone
NextQuiz ==
    \/ \E key \in SomeQuizLanguages : setQuizLanguage(key)
    \/ startQuiz
    \/ \E index \in 0..Distractors : handleAnswer(index)
    \/ goToNext
    \/ resetQuiz

SpecQuiz == Init /\ [][NextQuiz]_vars

\* the whole component
Next ==
    \/ \E text \in SomeQueries : setQuery(text)
    \/ \E category \in categories : setActiveCategory(category)
    \/ \E key \in SomeTranslations : setTranslation(key)
    \/ \E key \in SomeQuizLanguages : setQuizLanguage(key)
    \/ startQuiz
    \/ \E index \in SomeChoices : handleAnswer(index)
    \/ goToNext
    \/ resetQuiz

Spec == Init /\ [][Next]_vars

\* a quiz that has just been started, in any quiz language that allows one
InitPlay ==
    /\ words \in {WordList(n) : n \in WordCounts}
    /\ query = EmptyString
    /\ activeCategory = "All"
    /\ translation = "en"
    /\ filteredWords = computeFilteredWords(words, "All", EmptyString).result
    /\ quizLanguage \in TranslationKeys
    /\ quizState = "active"
    /\ \E seed \in 1..MaxSeed :
           quizQuestions = buildQuizQuestions(words, quizLanguage, seed).questions
    /\ Len(quizQuestions) = QuizLength
    /\ quizIndex = 0
    /\ selectedChoice = null
    /\ quizScore = 0
    /\ quizError = nullError
    /\ answersAccepted = 0
    /\ correctAnswers = 0
    /\ nextCalls = 0

\* a user who only answers the question shown and presses Next/End
NextPlay ==
    \/ \E index \in 0..Distractors : handleAnswer(index)
    \/ goToNext

\* ... and who keeps doing so: an enabled answer or Next is eventually clicked
SpecPlay ==
    /\ InitPlay
    /\ [][NextPlay]_vars
    /\ WF_vars(\E index \in 0..Distractors : handleAnswer(index))
    /\ WF_vars(goToNext)

(***************************************************************************)
(* Properties of the search                                                *)
(***************************************************************************)
Shown(word) == word \in Range(filteredWords)

InActiveCategory(word) == activeCategory = "All" \/ word.category = activeCategory

SearchKeys == {"hr", "en", "es", "hi", "ta", "te", "bn"}

\* C1: every word shown has the active category (unless it is 'All'), and
\* with an empty query the words shown are exactly the words of the list
\* that have the active category, 'All' showing every word.
C1_CategoryFilter ==
    /\ \A i \in 1..Len(filteredWords) :
           activeCategory # "All" => filteredWords[i].category = activeCategory
    /\ trim(query) = EmptyString =>
           /\ Range(filteredWords) = {word \in Range(words) : InActiveCategory(word)}
           /\ Len(filteredWords) = Cardinality(Range(filteredWords))

C1_Witness ==
    /\ activeCategory = "tools"
    /\ query = <<" ">>
    /\ Len(filteredWords) > 0
    /\ Len(filteredWords) < Len(words)

\* letter case and diacritics removed
Fold(text) == toLowerCase([i \in 1..Len(text) |-> StripMarks(text[i])])

\* C2: a word of the active category is shown whenever the query differs
\* only by letter case or diacritics from a substring of one of its fields.
C2_CaseAndDiacriticInsensitive ==
    \A word \in Range(words) :
        ( /\ InActiveCategory(word)
          /\ \E key \in SearchKeys :
                 /\ Truthy(Field(word, key))
                 /\ includes(Fold(Field(word, key)), Fold(query)) )
        => Shown(word)

\* C3: with a non-empty trimmed query, a word of the active category is
\* shown whenever the trimmed query occurs in one of its fields hr, en, es,
\* hi, ta, te, bn, whatever the translation language on display.
C3_AllFieldsSearched ==
    trim(query) # EmptyString =>
        \A word \in Range(words) :
            ( /\ InActiveCategory(word)
              /\ \E key \in SearchKeys :
                     /\ Truthy(Field(word, key))
                     /\ includes(Field(word, key), trim(query)) )
            => Shown(word)

C3_Witness ==
    /\ trim(query) # EmptyString
    /\ translation = "hi"
    /\ \E word \in Range(words) :
           /\ Shown(word)
           /\ \E key \in {"es", "ta", "te", "bn"} :
                  Truthy(Field(word, key)) /\ includes(Field(word, key), trim(query))
           /\ \A key \in {"hr", "en", "hi"} :
                  ~includes(toLowerCase(Field(word, key)), toLowerCase(trim(query)))

(***************************************************************************)
(* Properties of the quiz                                                  *)
(***************************************************************************)
\* the words that have a quiz translation in a language
Translated(language) ==
    {word \in Range(words) : getTranslationForQuiz(word, language) # EmptyString}

\* the distinct quiz translations of a language
TranslationsIn(language) ==
    {getTranslationForQuiz(word, language) : word \in Translated(language)}

CanBuildQuiz ==
    /\ Cardinality(Translated(quizLanguage)) >= 10
    /\ Cardinality(TranslationsIn(quizLanguage)) >= 4

C5_OneCorrectOptionOfFour ==
    [][(startQuiz /\ quizState' = "active") =>
          \A k \in 1..Len(quizQuestions') :
              LET question == quizQuestions'[k]
                  correct == getTranslationForQuiz(question.word, quizLanguage)
              IN  /\ Len(question.options) = 4
                  /\ \A i, j \in 1..4 : i # j => question.options[i] # question.options[j]
                  /\ \A i \in 1..4 : question.options[i] # EmptyString
                  /\ Cardinality({i \in 1..4 : question.options[i] = correct}) = 1
                  /\ question.correctIndex \in 0..3
                  /\ question.options[question.correctIndex + 1] = correct]_vars

C5_Witness ==
    /\ quizState = "active"
    /\ quizLanguage = "te"
    /\ Cardinality(TranslationsIn("te")) = 4
    /\ \A k \in 1..Len(quizQuestions) :
           quizQuestions[k].options[quizQuestions[k].correctIndex + 1]
               = getTranslationForQuiz(quizQuestions[k].word, "te")
    /\ \E k \in 1..Len(quizQuestions) : quizQuestions[k].correctIndex = 3
    /\ \E k \in 1..Len(quizQuestions) : quizQuestions[k].correctIndex = 0

\* C6: quizState starts 'idle'; it becomes 'active' only by a successful
\* startQuiz, and 'complete' only from 'active' by goToNext on the last
\* question once that question is answered.
C6_QuizStateMachine ==
    /\ quizState = "idle"
    /\ [][/\ (quizState' = "active" /\ quizState # "active") => startQuiz
          /\ (quizState' = "complete" /\ quizState # "complete") =>
                 /\ quizState = "active"
                 /\ goToNext
                 /\ quizIndex = Len(quizQuestions) - 1
                 /\ selectedChoice # null
          /\ quizState' \in {"idle", "active", "complete"}]_vars

C6_Witness ==
    /\ quizState = "complete"
    /\ quizIndex = 9
    /\ selectedChoice # null

\* C7: the word list is never changed: it always has the entries it was
\* loaded with, in the order it was loaded with.
C7_WordsNeverMutated ==
    /\ words = WordList(Len(words))
    /\ Len(words) \in WordCounts

C7_Witness ==
    /\ quizState = "complete"
    /\ trim(query) # EmptyString
    /\ activeCategory = "safety"
    /\ translation = "hi"
    /\ Len(filteredWords) > 1
    /\ LET Keep(word) == Shown(word)
       IN  filteredWords # SelectSeq(words, Keep)

\* C8: a started quiz has exactly 10 questions, about 10 pairwise distinct
\* entries of the word list that have a quiz translation.
C8_TenDistinctWords ==
    [][(startQuiz /\ quizState' = "active") =>
          /\ Len(quizQuestions') = 10
          /\ \A i, j \in 1..Len(quizQuestions') :
                 i # j => quizQuestions'[i].word.id # quizQuestions'[j].word.id
          /\ \A i \in 1..Len(quizQuestions') :
                 quizQuestions'[i].word \in Translated(quizLanguage)]_vars

C8_Witness ==
    /\ quizState = "active"
    /\ Len(words) > 10
    /\ Len(quizQuestions) = 10
    /\ \E i \in 1..9 : quizQuestions[i].word.id > quizQuestions[i + 1].word.id
    /\ \E word \in Range(words) :
           \A i \in 1..10 : quizQuestions[i].word # word

\* C9: quizIndex changes only by +1, through goToNext on an answered
\* question of the active quiz, or to 0 through startQuiz or resetQuiz.
C9_LinearFlow ==
    [][quizIndex' # quizIndex =>
          \/ /\ quizIndex' = quizIndex + 1
             /\ goToNext
             /\ quizState = "active"
             /\ selectedChoice # null
          \/ /\ quizIndex' = 0
             /\ startQuiz \/ resetQuiz]_vars

C9_Witness ==
    /\ quizState = "active"
    /\ quizIndex = 9
    /\ selectedChoice = null

\* C10: a startQuiz that cannot build a quiz sets quizError to the message
\* and quizState to 'idle' and leaves quizQuestions, quizIndex,
\* selectedChoice and quizScore as they were.
C10_RefusalKeepsProgress ==
    [][(~CanBuildQuiz /\ startQuiz) =>
          /\ quizError' = QuizErrorMessage
          /\ quizState' = "idle"
          /\ UNCHANGED <<quizQuestions, quizIndex, selectedChoice, quizScore>>]_vars

C10_Witness ==
    /\ quizState = "idle"
    /\ quizError = QuizErrorMessage
    /\ ~CanBuildQuiz
    /\ Len(quizQuestions) = 10
    /\ quizIndex = 9
    /\ selectedChoice # null
    /\ quizScore > 0

\* C11: handleAnswer sets selectedChoice to the chosen index and adds 1 to
\* quizScore exactly when that index is the current question's correctIndex
\* (and nothing otherwise); once a question is answered, selectedChoice and
\* quizScore change only by goToNext, startQuiz or resetQuiz.
C11_AnswerAcceptedOnce ==
    [][/\ \A index \in 0..Distractors :
              handleAnswer(index) =>
                  /\ selectedChoice = null
                  /\ selectedChoice' = index
                  /\ quizScore' = IF index = currentQuestion.correctIndex
                                  THEN quizScore + 1 ELSE quizScore
       /\ (selectedChoice # null
             /\ (selectedChoice' # selectedChoice \/ quizScore' # quizScore)) =>
              (goToNext \/ resetQuiz \/ startQuiz)]_vars

C11_Witness ==
    /\ quizState = "active"
    /\ quizIndex = 1
    /\ quizScore = 1
    /\ selectedChoice # null
    /\ selectedChoice # currentQuestion.correctIndex
    /\ answersAccepted = 2

\* C12: a startQuiz that can build a quiz, from any quiz state, leaves
\* quizState 'active', quizQuestions a newly built list of 10, quizIndex 0,
\* selectedChoice null, quizScore 0 and quizError null.
C12_StartDiscardsProgress ==
    [][(CanBuildQuiz /\ startQuiz) =>
          /\ quizState' = "active"
          /\ Len(quizQuestions') = 10
          /\ \E seed \in 1..MaxSeed :
                 quizQuestions' = buildQuizQuestions(words, quizLanguage, seed).questions
          /\ quizIndex' = 0
          /\ selectedChoice' = null
          /\ quizScore' = 0
          /\ quizError' = nullError]_vars

C12_Witness ==
    /\ quizState = "active"
    /\ CanBuildQuiz
    /\ Len(quizQuestions) = 10
    /\ quizIndex = 0
    /\ selectedChoice = null
    /\ quizScore = 0
    /\ quizError = nullError
    /\ answersAccepted = 0

\* C14: while the quiz is active there are exactly 10 questions and
\* quizIndex is in 0..9; when it is complete quizIndex is 9 and the last
\* question is answered.
C14_IndexInRange ==
    /\ quizState = "active" =>
           /\ Len(quizQuestions) = 10
           /\ 0 <= quizIndex
           /\ quizIndex <= 9
           /\ HasCurrentQuestion
    /\ quizState = "complete" =>
           /\ quizIndex = 9
           /\ selectedChoice # null

C14_Witness ==
    /\ quizState = "complete"
    /\ Len(quizQuestions) = 10
    /\ nextCalls = 10

\* C15: quizScore is the number of questions of the current run answered
\* with the correct option; so 0 <= quizScore <= quizIndex + (1 if the
\* current question is answered) <= 10, and a complete quiz shows a score of
\* at most quizQuestions.length.
C15_ScoreCountsCorrectAnswers ==
    LET answered == quizIndex + (IF selectedChoice # null THEN 1 ELSE 0)
    IN  /\ quizScore = correctAnswers
        /\ 0 <= quizScore
        /\ quizScore <= answered
        /\ answered <= 10
        /\ quizState = "complete" => quizScore <= Len(quizQuestions)

C15_Witness ==
    /\ quizState = "complete"
    /\ quizScore > 0
    /\ quizScore < 10
    /\ quizScore = correctAnswers
    /\ answersAccepted = 10

\* C13: a user who keeps answering and pressing Next, without Start or
\* Reset, brings an active quiz to 'complete', and has then given exactly 10
\* accepted answers and pressed Next 10 times, 9 of which advanced quizIndex.
C13_QuizCompletes ==
    /\ (quizState = "active") ~> (quizState = "complete")
    /\ [](quizState = "complete" =>
              /\ answersAccepted = 10
              /\ nextCalls = 10
              /\ quizIndex = 9)

C13_Witness ==
    /\ quizState = "complete"
    /\ answersAccepted = 10
    /\ nextCalls = 10
    /\ quizIndex = 9
    /\ quizLanguage = "hi"

\* the quizzes SpecPlay starts from are states the component reaches
C13_StartReached ==
    /\ quizState = "active"
    /\ quizLanguage = "te"
    /\ quizIndex = 0
    /\ selectedChoice = null
    /\ nextCalls = 0

====
